---- MODULE Spec2Model ----
(***************************************************************************)
(* Kolibri front-end: three Vue components.                                *)
(*   SelectedResourcesSize    the capacity check gating the confirm button *)
(*   ReportsLessonListPage    the coach's lesson list (filter, sort, rows) *)
(*   ReportsLessonReportPage  the per-lesson resource report               *)
(* Computed properties are operators; the rendered DOM (what the template  *)
(* binds the computed properties to) is state.                             *)
(***************************************************************************)
EXTENDS Integers, Sequences, FiniteSets, TLC

VARIABLES
  \* the component the route shows
  page,
  \* SelectedResourcesSize: props and the rendered button / alert
  fileSize, resourceCount, spaceOnDrive, confirmDisabled, alertShown,
  \* ReportsLessonListPage: data, store and rendered rows
  phase, filter, lessons, listRows, listBranch, listMessage, renders,
  \* stores shared by both report pages (commonCoach mixin)
  learners, records,
  \* ReportsLessonReportPage: store, rendered rows, whether render threw
  lesson, contentNodeMap, reportRows, reportThrew, reportRenders

sizeVars == <<fileSize, resourceCount, spaceOnDrive, confirmDisabled, alertShown>>
listVars == <<phase, filter, lessons, listRows, listBranch, listMessage, renders>>
storeVars == <<learners, records>>
reportVars == <<lesson, contentNodeMap, reportRows, reportThrew, reportRenders>>
vars == <<page, sizeVars, listVars, storeVars, reportVars>>

(***************************************************************************)
(* Bounds                                                                  *)
(***************************************************************************)
MaxBytes == 5
MaxCount == 2
MaxLessons == 2
MaxNodes == 2
MaxRenders == 2

(***************************************************************************)
(* JavaScript values that need a tag: undefined, and what a callback or a  *)
(* property read may return next to it.                                    *)
(***************************************************************************)
JSUndefined == [type |-> "undefined"]
JSBoolean(b) == [type |-> "boolean", value |-> b]
JSString(s) == [type |-> "string", value |-> s]
JSObject(o) == [type |-> "object", value |-> o]

\* ToBoolean, as Array.prototype.filter applies it to the callback's result
ToBoolean(v) == v.type = "boolean" /\ v.value

Max(a, b) == IF a >= b THEN a ELSE b

(***************************************************************************)
(* SelectedResourcesSize.vue                                               *)
(***************************************************************************)
remainingSpaceAfterTransfer_NoClamp(space, size) == space - size

remainingSpaceAfterTransfer(space, size) == Max(space - size, 0)

buttonIsDisabled_Boundary(count, space, size) ==
  count = 0 \/ remainingSpaceAfterTransfer(space, size) < 0

buttonIsDisabled(count, space, size) ==
  count = 0 \/ remainingSpaceAfterTransfer(space, size) <= 0

\* <UiAlert v-if="remainingSpaceAfterTransfer <= 0">
alertVisible(space, size) == remainingSpaceAfterTransfer(space, size) <= 0

Bytes == 0..MaxBytes
Counts == 0..MaxCount

\* the template's bindings, re-evaluated whenever a prop changes
RenderSize(count, space, size) ==
  /\ confirmDisabled' = buttonIsDisabled(count, space, size)
  /\ alertShown' = alertVisible(space, size)

SizeInit ==
  /\ fileSize \in Bytes
  /\ resourceCount \in Counts
  /\ spaceOnDrive \in Bytes
  /\ confirmDisabled = buttonIsDisabled(resourceCount, spaceOnDrive, fileSize)
  /\ alertShown = alertVisible(spaceOnDrive, fileSize)

SizeIdle ==
  /\ fileSize = 0
  /\ resourceCount = 0
  /\ spaceOnDrive = 0
  /\ confirmDisabled = TRUE
  /\ alertShown = TRUE

SetFileSize ==
  \E v \in Bytes :
    /\ page = "SelectedResourcesSize"
    /\ v # fileSize
    /\ fileSize' = v
    /\ UNCHANGED <<resourceCount, spaceOnDrive>>
    /\ RenderSize(resourceCount, spaceOnDrive, v)
    /\ UNCHANGED <<page, listVars, storeVars, reportVars>>

SetResourceCount ==
  \E v \in Counts :
    /\ page = "SelectedResourcesSize"
    /\ v # resourceCount
    /\ resourceCount' = v
    /\ UNCHANGED <<fileSize, spaceOnDrive>>
    /\ RenderSize(v, spaceOnDrive, fileSize)
    /\ UNCHANGED <<page, listVars, storeVars, reportVars>>

SetSpaceOnDrive ==
  \E v \in Bytes :
    /\ page = "SelectedResourcesSize"
    /\ v # spaceOnDrive
    /\ spaceOnDrive' = v
    /\ UNCHANGED <<fileSize, resourceCount>>
    /\ RenderSize(resourceCount, v, fileSize)
    /\ UNCHANGED <<page, listVars, storeVars, reportVars>>

(***************************************************************************)
(* Stores behind the commonCoach mixin: learners with their group          *)
(* memberships and the completion records, one per (learner, item).        *)
(***************************************************************************)
GroupIds == {"g1", "g2"}
\* the assignment scope "everyone" (no group identifier equals it)
Everyone == {"everyone"}
Statuses == {"notStarted", "inProgress", "completed", "needsHelp"}

\* learner stores with the records kept about the items 1 and 2 (lesson ids,
\* or content ids of the report): an empty class, a learner who has attempted
\* nothing, and two learners with records
Stores ==
  { [learners |-> <<>>, records |-> {}],
    [learners |-> <<[id |-> "u1", groups |-> {"g1"}]>>, records |-> {}],
    [learners |-> <<[id |-> "u1", groups |-> {"g2"}], [id |-> "u2", groups |-> {"g1"}]>>,
     records |-> {[learner |-> "u1", item |-> 1, status |-> "inProgress"],
                  [learner |-> "u2", item |-> 1, status |-> "needsHelp", time |-> 10],
                  [learner |-> "u2", item |-> 2, status |-> "completed", time |-> 20]}] }

\* resolveRecipients: everyone, or the learners in any of the targeted groups
getLearnersForLesson(l, store) ==
  LET targeted(u) == l["groups"] = Everyone \/ (u.groups \cap l["groups"]) # {}
  IN SelectSeq(store, targeted)

RecordOf(u, itemId, recs) == {r \in recs : r.learner = u.id /\ r.item = itemId}

StatusOf(u, itemId, recs) ==
  IF RecordOf(u, itemId, recs) = {} THEN "notStarted"
  ELSE (CHOOSE r \in RecordOf(u, itemId, recs) : TRUE).status

\* computeTally: four fixed keys, a learner without a record is not-started
computeTally(itemId, recips, recs) ==
  [s \in Statuses |->
     Cardinality({i \in 1..Len(recips) : StatusOf(recips[i], itemId, recs) = s})]

getLessonStatusTally(lessonId, recips, recs) == computeTally(lessonId, recips, recs)

getContentStatusTally(contentId, recips, recs) == computeTally(contentId, recips, recs)

RECURSIVE SumTimes(_)
SumTimes(rs) ==
  IF rs = {} THEN 0
  ELSE LET r == CHOOSE x \in rs : TRUE IN r.time + SumTimes(rs \ {r})

\* computeAverageTime: the mean over the recipients with a defined time-spent,
\* kept as the exact fraction num/den; zero when there is none
getContentAvgTimeSpent(contentId, recips, recs) ==
  LET timed == {r \in recs : /\ r.item = contentId
                             /\ "time" \in DOMAIN r
                             /\ \E i \in 1..Len(recips) : recips[i].id = r.learner}
  IN IF timed = {} THEN [num |-> 0, den |-> 1]
     ELSE [num |-> SumTimes(timed), den |-> Cardinality(timed)]

\* group-name resolver: display names of the known group identifiers
getGroupNames(groups) == {<<"name", g>> : g \in groups \cap GroupIds}

(***************************************************************************)
(* The object heap. A reference is a tagged pair; the report pages read    *)
(* store objects and allocate one fresh object per row.                    *)
(***************************************************************************)
UndefinedRef == <<"undefined", 0>>
LessonRef(i) == <<"lesson", i>>
ContentRef(n) == <<"content", n>>
RowRef(i) == <<"row", i>>

ObjectAssign_Swapped(h, target, source) ==
  [h EXCEPT ![source] =
     [k \in DOMAIN h[source] \cup DOMAIN h[target] |->
        IF k \in DOMAIN h[target] THEN h[target][k] ELSE h[source][k]]]

ObjectAssign_TargetWins(h, target, source) ==
  [h EXCEPT ![target] =
     [k \in DOMAIN h[target] \cup DOMAIN h[source] |->
        IF k \in DOMAIN h[target] THEN h[target][k] ELSE h[source][k]]]

\* Object.assign(target, source): target takes every own property of source
ObjectAssign(h, target, source) ==
  [h EXCEPT ![target] =
     [k \in DOMAIN h[target] \cup DOMAIN h[source] |->
        IF k \in DOMAIN h[source] THEN h[source][k] ELSE h[target][k]]]

(***************************************************************************)
(* lodash sortBy(collection, iteratees): ascending by the iteratees in     *)
(* order, ties broken by the element's index in the collection; the result *)
(* is a new array.                                                         *)
(***************************************************************************)
Titles == <<"Algebra", "Biology">>
TitleRank(t) == CHOOSE i \in 1..Len(Titles) : Titles[i] = t

\* the position of a property value in JavaScript's < order
OrderKey(key, v) ==
  IF key = "title" THEN TitleRank(v) ELSE IF v THEN 1 ELSE 0

\* the iteratees applied to one element; a property of undefined is undefined
Criteria(h, ref, keys) ==
  [k \in 1..Len(keys) |->
     IF ref = UndefinedRef THEN JSUndefined
     ELSE IF keys[k] \notin DOMAIN h[ref] THEN JSUndefined
     ELSE [type |-> "ordered", value |-> OrderKey(keys[k], h[ref][keys[k]])]]

compareAscending(v, o) ==
  IF v = o THEN 0
  ELSE IF v.type = "undefined" THEN 1
  ELSE IF o.type = "undefined" THEN -1
  ELSE IF v.value > o.value THEN 1 ELSE -1

RECURSIVE compareMultiple(_, _, _)
compareMultiple(a, b, k) ==
  IF k > Len(a.criteria) THEN a.index - b.index
  ELSE IF compareAscending(a.criteria[k], b.criteria[k]) # 0
       THEN compareAscending(a.criteria[k], b.criteria[k])
       ELSE compareMultiple(a, b, k + 1)

sortBy(arr, h, keys) ==
  LET n == Len(arr)
      obj(i) == [criteria |-> Criteria(h, arr[i], keys), index |-> i]
      pos(i) == 1 + Cardinality({j \in 1..n : compareMultiple(obj(j), obj(i), 1) < 0})
  IN [p \in 1..n |-> arr[CHOOSE i \in 1..n : pos(i) = p]]

(***************************************************************************)
(* ReportsLessonListPage.vue                                               *)
(***************************************************************************)
filterOptions ==
  << [label |-> "allLessonsLabel", value |-> "allLessons"],
     [label |-> "Active lessons", value |-> "activeLessons"],
     [label |-> "Inactive lessons", value |-> "inactiveLessons"] >>

\* this.filter.value: a property read; a string primitive has no own "value"
FilterValue(f) ==
  IF f.type = "object" /\ "value" \in DOMAIN f.value
  THEN JSString(f.value["value"])
  ELSE JSUndefined

emptyMessage(f) ==
  IF FilterValue(f) = JSString("allLessons") THEN "lessonListEmptyState"
  ELSE IF FilterValue(f) = JSString("activeLessons") THEN "No active lessons"
  ELSE IF FilterValue(f) = JSString("inactiveLessons") THEN "No inactive lessons"
  ELSE ""

\* which return statement of table's filter callback runs
FilterBranch(f) ==
  IF FilterValue(f) = JSString("allLessons") THEN "allLessons"
  ELSE IF FilterValue(f) = JSString("activeLessons") THEN "activeLessons"
  ELSE IF FilterValue(f) = JSString("inactiveLessons") THEN "inactiveLessons"
  ELSE "fallthrough"

FilterCallback_Permissive(f, l) ==
  IF FilterBranch(f) = "activeLessons" THEN JSBoolean(l["active"])
  ELSE IF FilterBranch(f) = "inactiveLessons" THEN JSBoolean(~l["active"])
  ELSE JSBoolean(TRUE)

FilterCallback_CopiedBranch(f, l) ==
  IF FilterBranch(f) = "allLessons" THEN JSBoolean(TRUE)
  ELSE IF FilterBranch(f) = "activeLessons" THEN JSBoolean(l["active"])
  ELSE IF FilterBranch(f) = "inactiveLessons" THEN JSBoolean(l["active"])
  ELSE JSUndefined

\* lesson => { ... }: a callback that ends without return gives undefined
FilterCallback(f, l) ==
  IF FilterBranch(f) = "allLessons" THEN JSBoolean(TRUE)
  ELSE IF FilterBranch(f) = "activeLessons" THEN JSBoolean(l["active"])
  ELSE IF FilterBranch(f) = "inactiveLessons" THEN JSBoolean(~l["active"])
  ELSE JSUndefined

lessonSortKeys_Swapped == <<"active", "title">>

lessonSortKeys == <<"title", "active">>

\* hasAssignments: learners.length > 0
listHasAssignments(recips) == Len(recips) > 0

\* sorted.map(lesson => ...): one fresh row object per lesson, in order
RECURSIVE LessonRows(_, _, _, _, _)
LessonRows(sorted, k, h, store, recs) ==
  IF k > Len(sorted) THEN h
  ELSE LET l == sorted[k]
           recips == getLearnersForLesson(h[l], store)
           tableRow == [totalLearners |-> Len(recips),
                        tally |-> getLessonStatusTally(h[l]["id"], recips, recs),
                        groupNames |-> getGroupNames(h[l]["groups"]),
                        hasAssignments |-> listHasAssignments(recips)]
           h1 == (RowRef(k) :> tableRow) @@ h
       IN LessonRows(sorted, k + 1, ObjectAssign(h1, RowRef(k), l), store, recs)

\* the computed property: the rows, and the store's lesson objects afterwards
table(f, ls, store, recs) ==
  LET n == Len(ls)
      h0 == [r \in {LessonRef(i) : i \in 1..n} |-> ls[r[2]]]
      keep(r) == ToBoolean(FilterCallback(f, h0[r]))
      filtered == SelectSeq([i \in 1..n |-> LessonRef(i)], keep)
      sorted == sortBy(filtered, h0, lessonSortKeys)
      h == LessonRows(sorted, 1, h0, store, recs)
  IN [rows |-> [k \in 1..Len(sorted) |-> h[RowRef(k)]],
      lessons |-> [i \in 1..n |-> h[LessonRef(i)]]]

\* the template evaluates table and emptyMessage
RenderList(f) ==
  LET t == table(f, lessons, learners, records)
  IN /\ listRows' = t.rows
     /\ lessons' = t.lessons
     /\ listBranch' = IF lessons = <<>> THEN "none" ELSE FilterBranch(f)
     /\ listMessage' = emptyMessage(f)
     /\ renders' = renders + 1

\* lessons of the store, assigned to group g1: unique ids, some carrying an
\* attribute named like a derived field of the row
LessonExtras == { <<>>, [hasAssignments |-> FALSE] }

LessonObjects(i) ==
  { [id |-> i, title |-> t, active |-> a, groups |-> {"g1"}] @@ x :
      t \in {Titles[j] : j \in 1..Len(Titles)}, a \in BOOLEAN, x \in LessonExtras }

LessonLists ==
  UNION { {ls \in [1..n -> UNION {LessonObjects(i) : i \in 1..n}] :
             \A i \in 1..n : ls[i]["id"] = i} : n \in 0..MaxLessons }

ListStores ==
  /\ lessons \in LessonLists
  /\ \E st \in Stores : learners = st.learners /\ records = st.records
  /\ listRows = <<>>
  /\ listBranch = "none"
  /\ listMessage = ""
  /\ renders = 0

\* data(): filter is the bare string
ListInit ==
  /\ ListStores
  /\ phase = "created"
  /\ filter = JSString("allLessons")

ListIdle ==
  /\ phase = "created"
  /\ filter = JSString("allLessons")
  /\ lessons = <<>>
  /\ listRows = <<>>
  /\ listBranch = "none"
  /\ listMessage = ""
  /\ renders = 0

beforeMount_Value ==
  /\ page = "ReportsLessonListPage"
  /\ phase = "created"
  /\ filter' = JSString(filterOptions[1].value)
  /\ phase' = "mounting"
  /\ UNCHANGED <<page, sizeVars, storeVars, reportVars, lessons, listRows,
                 listBranch, listMessage, renders>>

beforeMount ==
  /\ page = "ReportsLessonListPage"
  /\ phase = "created"
  /\ filter' = JSObject(filterOptions[1])
  /\ phase' = "mounting"
  /\ UNCHANGED <<page, sizeVars, storeVars, reportVars, lessons, listRows,
                 listBranch, listMessage, renders>>

\* the first render after beforeMount, or a later re-evaluation
Render ==
  /\ page = "ReportsLessonListPage"
  /\ phase \in {"mounting", "mounted"}
  /\ renders < MaxRenders
  /\ RenderList(filter)
  /\ phase' = "mounted"
  /\ UNCHANGED <<page, sizeVars, storeVars, reportVars, filter>>

\* KSelect's v-model: the user picks one of filterOptions; the page re-renders
Select ==
  \E k \in 1..Len(filterOptions) :
    /\ page = "ReportsLessonListPage"
    /\ phase = "mounted"
    /\ renders < MaxRenders
    /\ filter # JSObject(filterOptions[k])
    /\ filter' = JSObject(filterOptions[k])
    /\ RenderList(JSObject(filterOptions[k]))
    /\ UNCHANGED <<page, sizeVars, storeVars, reportVars, phase>>

\* the computed property applied outside the lifecycle, to any filter value
FilterInputs ==
  {JSString("allLessons")}
    \cup {JSObject(filterOptions[k]) : k \in 1..Len(filterOptions)}
    \cup {JSObject([label |-> "Archived lessons", value |-> "archivedLessons"])}

TableInit ==
  /\ page = "ReportsLessonListPage"
  /\ ListStores
  /\ phase = "detached"
  /\ filter \in FilterInputs

EvalTable ==
  /\ phase = "detached"
  /\ renders < MaxRenders
  /\ RenderList(filter)
  /\ UNCHANGED <<page, sizeVars, storeVars, reportVars, filter, phase>>

(***************************************************************************)
(* ReportsLessonReportPage (second component of SelectedResourcesSize.vue) *)
(***************************************************************************)
contentSortKeys == <<"title">>

RECURSIVE SumValues(_, _)
SumValues(f, keys) ==
  IF keys = {} THEN 0
  ELSE LET k == CHOOSE x \in keys : TRUE IN f[k] + SumValues(f, keys \ {k})

reportHasAssignments_Attempted(tally) ==
  SumValues(tally, DOMAIN tally \ {"notStarted"})

\* hasAssignments: Object.values(tally).reduce((a, b) => a + b, 0), a number
reportHasAssignments(tally) == SumValues(tally, DOMAIN tally)

\* a number in a v-if: zero is falsy
NumberToBoolean(n) == n # 0

\* sorted.map(content => ...): reading content.content_id of undefined throws
\* a TypeError, which ends the computed property without a result
RECURSIVE ContentRows(_, _, _, _, _)
ContentRows(sorted, k, h, recips, recs) ==
  IF k > Len(sorted) THEN [threw |-> FALSE, heap |-> h, count |-> Len(sorted)]
  ELSE IF sorted[k] = UndefinedRef THEN [threw |-> TRUE, heap |-> h, count |-> 0]
  ELSE LET c == sorted[k]
           tally == getContentStatusTally(h[c]["content_id"], recips, recs)
           tableRow == [avgTimeSpent |->
                          getContentAvgTimeSpent(h[c]["content_id"], recips, recs),
                        tally |-> tally,
                        hasAssignments |-> reportHasAssignments(tally)]
           h1 == (RowRef(k) :> tableRow) @@ h
       IN ContentRows(sorted, k + 1, ObjectAssign(h1, RowRef(k), c), recips, recs)

\* the computed property: whether it threw, the rows, and the store afterwards
reportTable(les, cmap, store, recs) ==
  LET ids == les["node_ids"]
      h0 == [r \in {ContentRef(n) : n \in DOMAIN cmap} |-> cmap[r[2]]]
      contentArray == [i \in 1..Len(ids) |->
                         IF ids[i] \in DOMAIN cmap THEN ContentRef(ids[i])
                         ELSE UndefinedRef]
      sorted == sortBy(contentArray, h0, contentSortKeys)
      recipients == getLearnersForLesson(les, store)
      res == ContentRows(sorted, 1, h0, recipients, recs)
  IN [threw |-> res.threw,
      rows |-> [k \in 1..res.count |-> res.heap[RowRef(k)]],
      contents |-> [n \in DOMAIN cmap |-> res.heap[ContentRef(n)]]]

NodeIds == 1..MaxNodes

ContentExtras == { <<>>, [hasAssignments |-> 0] }

\* content_id: the item the completion records of the node are kept under
ContentObjects(n) ==
  { [node_id |-> n, content_id |-> n, title |-> t, kind |-> "exercise"] @@ x :
      t \in {Titles[j] : j \in 1..Len(Titles)}, x \in ContentExtras }

ContentMaps ==
  UNION { {m \in [D -> UNION {ContentObjects(n) : n \in D}] :
             \A n \in D : m[n]["node_id"] = n} : D \in SUBSET NodeIds }

NodeLists ==
  UNION { {ns \in [1..n -> NodeIds] : \A i, j \in 1..n : i # j => ns[i] # ns[j]} :
            n \in 0..MaxNodes }

ReportInit ==
  /\ lesson \in {[node_ids |-> ns, groups |-> g] : ns \in NodeLists, g \in {Everyone, {"g1"}}}
  /\ contentNodeMap \in ContentMaps
  /\ \E st \in Stores : learners = st.learners /\ records = st.records
  /\ reportRows = <<>>
  /\ reportThrew = FALSE
  /\ reportRenders = 0

ReportIdle ==
  /\ lesson = [node_ids |-> <<>>, groups |-> Everyone]
  /\ contentNodeMap = <<>>
  /\ reportRows = <<>>
  /\ reportThrew = FALSE
  /\ reportRenders = 0

StoresIdle ==
  /\ learners = <<>>
  /\ records = {}

\* the template evaluates table; after a throw the page keeps what it showed
RenderReport ==
  LET t == reportTable(lesson, contentNodeMap, learners, records)
  IN /\ page = "ReportsLessonReportPage"
     /\ reportRenders < MaxRenders
     /\ reportThrew' = t.threw
     /\ reportRows' = IF t.threw THEN reportRows ELSE t.rows
     /\ contentNodeMap' = t.contents
     /\ reportRenders' = reportRenders + 1
     /\ UNCHANGED <<page, sizeVars, listVars, storeVars, lesson>>

(***************************************************************************)
(* Specifications                                                          *)
(***************************************************************************)
Init ==
  \/ /\ page = "SelectedResourcesSize"
     /\ SizeInit /\ ListIdle /\ StoresIdle /\ ReportIdle
  \/ /\ page = "ReportsLessonListPage"
     /\ SizeIdle /\ ListInit /\ ReportIdle
  \/ /\ page = "ReportsLessonReportPage"
     /\ SizeIdle /\ ListIdle /\ ReportInit

Next ==
  \/ SetFileSize
  \/ SetResourceCount
  \/ SetSpaceOnDrive
  \/ beforeMount
  \/ Render
  \/ Select
  \/ RenderReport

Spec == Init /\ [][Next]_vars

\* the lesson list's table as a pure function of its inputs
InitTable == TableInit /\ SizeIdle /\ ReportIdle

NextTable == EvalTable

SpecTable == InitTable /\ [][NextTable]_vars

(***************************************************************************)
(* Properties                                                              *)
(***************************************************************************)
Range(q) == {q[i] : i \in DOMAIN q}
PosIn(q, x) == CHOOSE i \in DOMAIN q : q[i] = x
OnSize == page = "SelectedResourcesSize"
OnList == page = "ReportsLessonListPage"
OnReport == page = "ReportsLessonReportPage"
RecognizedFilters == {"allLessons", "activeLessons", "inactiveLessons"}
Recognized(f) == \E v \in RecognizedFilters : FilterValue(f) = JSString(v)

\* C1: the confirm button is enabled iff spaceOnDrive - fileSize > 0 and
\* resourceCount > 0, on the current values of the props.
C1_ConfirmEnabledIff ==
  OnSize => ((~confirmDisabled) <=> (spaceOnDrive - fileSize > 0 /\ resourceCount > 0))

\* all the space would be used and something is selected: the button is disabled
C1_Witness ==
  /\ OnSize
  /\ spaceOnDrive = fileSize
  /\ spaceOnDrive > 0
  /\ resourceCount > 0
  /\ confirmDisabled

\* C2: remainingSpaceAfterTransfer is max(spaceOnDrive - fileSize, 0), never
\* negative, 0 whenever fileSize >= spaceOnDrive, and the alert shows exactly
\* when it is 0.
C2_RemainingClamped ==
  OnSize =>
    LET r == remainingSpaceAfterTransfer(spaceOnDrive, fileSize)
    IN /\ r = (IF spaceOnDrive > fileSize THEN spaceOnDrive - fileSize ELSE 0)
       /\ r >= 0
       /\ (fileSize >= spaceOnDrive => r = 0)
       /\ (alertShown <=> r = 0)

\* the candidate is larger than the drive: clamped to 0, alert shown
C2_Witness ==
  /\ OnSize
  /\ fileSize > spaceOnDrive
  /\ remainingSpaceAfterTransfer(spaceOnDrive, fileSize) = 0
  /\ alertShown

C4_FilterExact ==
  (OnList /\ phase = "mounted" /\ filter.type = "object") =>
    LET v == filter.value["value"]
        want == {i \in 1..Len(lessons) :
                   \/ v = "allLessons"
                   \/ v = "activeLessons" /\ lessons[i]["active"]
                   \/ v = "inactiveLessons" /\ ~lessons[i]["active"]}
        ids(k) == {r["id"] : r \in Range(table(JSObject(filterOptions[k]),
                                               lessons, learners, records).rows)}
    IN /\ Len(listRows) = Cardinality(want)
       /\ {r["id"] : r \in Range(listRows)} = {lessons[i]["id"] : i \in want}
       /\ ids(2) \cap ids(3) = {}
       /\ ids(2) \cup ids(3) = ids(1)

\* the inactive-only table of a store holding an active and an inactive lesson
C4_Witness ==
  /\ OnList
  /\ phase = "mounted"
  /\ filter = JSObject(filterOptions[3])
  /\ Len(lessons) = 2
  /\ lessons[1]["active"]
  /\ ~lessons[2]["active"]
  /\ Len(listRows) = 1
  /\ listRows[1]["id"] = 2

\* C5: rows are ordered by the sort keys in the order given (lesson list:
\* title, then active; resource list: title) and rows whose keys are all
\* equal keep the relative order of the input collection.
C5_SortedStable ==
  /\ OnList =>
       \A k, m \in 1..Len(listRows) :
         k < m =>
           LET a == listRows[k]
               b == listRows[m]
           IN \/ TitleRank(a["title"]) < TitleRank(b["title"])
              \/ /\ a["title"] = b["title"]
                 /\ \/ (~a["active"]) /\ b["active"]
                    \/ /\ a["active"] = b["active"]
                       /\ PosIn(lessons, lessons[a["id"]]) < PosIn(lessons, lessons[b["id"]])
  /\ OnReport =>
       \A k, m \in 1..Len(reportRows) :
         k < m =>
           LET a == reportRows[k]
               b == reportRows[m]
           IN \/ TitleRank(a["title"]) < TitleRank(b["title"])
              \/ /\ a["title"] = b["title"]
                 /\ PosIn(lesson["node_ids"], a["node_id"])
                      < PosIn(lesson["node_ids"], b["node_id"])

\* two lessons with equal title and active flag, shown in store order
C5_Witness ==
  /\ OnList
  /\ phase = "mounted"
  /\ Len(listRows) = 2
  /\ listRows[1]["title"] = listRows[2]["title"]
  /\ listRows[1]["active"] = listRows[2]["active"]
  /\ listRows[1]["id"] = 1
  /\ listRows[2]["id"] = 2

\* C6: computing a table leaves the store's collections and objects as they
\* were, and computing it again on unchanged inputs gives the same rows.
C6_InputsUnchanged ==
  [][ /\ lessons' = lessons
      /\ contentNodeMap' = contentNodeMap
      /\ lesson' = lesson
      /\ learners' = learners
      /\ records' = records
      /\ (phase \in {"mounted", "detached"} /\ renders > 0 /\ filter' = filter)
           => listRows' = listRows
      /\ reportRenders > 0
           => (reportRows' = reportRows /\ reportThrew' = reportThrew) ]_vars

\* the lesson list computed twice under the first filter option, rows shown
C6_Witness ==
  /\ OnList
  /\ phase = "mounted"
  /\ renders = 2
  /\ filter = JSObject(filterOptions[1])
  /\ Len(listRows) = Len(lessons)
  /\ Len(lessons) > 0

\* C7 as stated: a child-item identifier without an entry in the item map is
\* no data; the report completes and shows the rows of the other items.
C7_MissingReferenceTolerated ==
  (/\ OnReport
   /\ reportRenders > 0
   /\ \E n \in Range(lesson["node_ids"]) : n \notin DOMAIN contentNodeMap
   /\ \E n \in Range(lesson["node_ids"]) : n \in DOMAIN contentNodeMap) =>
    /\ ~reportThrew
    /\ {r["node_id"] : r \in Range(reportRows)}
         = Range(lesson["node_ids"]) \cap DOMAIN contentNodeMap

\* the sum of the tally of a report row's item, over the lesson's recipients
AttemptsOf(row) ==
  {r \in records : /\ r.item = row["content_id"]
                   /\ \E i \in 1..Len(getLearnersForLesson(lesson, learners)) :
                        getLearnersForLesson(lesson, learners)[i].id = r.learner}

\* the report rows whose item carries no hasAssignments of its own
DerivedRows ==
  {r \in Range(reportRows) : "hasAssignments" \notin DOMAIN contentNodeMap[r["node_id"]]}

\* C8 as stated: on a non-empty recipient set none of whom attempted the item
\* the lesson-list derivation is true and the resource-report one is false.
C8_DerivationsDiffer ==
  OnReport =>
    \A r \in DerivedRows :
      (getLearnersForLesson(lesson, learners) # <<>> /\ AttemptsOf(r) = {}) =>
        /\ listHasAssignments(getLearnersForLesson(lesson, learners))
        /\ ~NumberToBoolean(r["hasAssignments"])

\* C8 amended: the tally counts a recipient without a record as not-started,
\* so its sum is the recipient count: the resource-report derivation is that
\* count, truthy exactly when the lesson-list derivation is true.
C8_DerivationsAgree ==
  OnReport =>
    \A r \in DerivedRows :
      /\ r["hasAssignments"] = Len(getLearnersForLesson(lesson, learners))
      /\ NumberToBoolean(r["hasAssignments"])
           <=> listHasAssignments(getLearnersForLesson(lesson, learners))

\* recipients, none with a record for the row's item, and a truthy sum
C8_Witness ==
  /\ OnReport
  /\ getLearnersForLesson(lesson, learners) # <<>>
  /\ \E r \in DerivedRows : AttemptsOf(r) = {} /\ r["hasAssignments"] > 0

\* C9: filter is the bare string until beforeMount, then the first option,
\* then always one of filterOptions; after beforeMount its value is
\* recognized, the first table shows every lesson, and neither table's
\* fall-through branch nor emptyMessage's empty string is reached.
C9_FilterLifecycle ==
  OnList =>
    /\ phase = "created" =>
         (filter = JSString("allLessons") /\ FilterValue(filter) = JSUndefined)
    /\ phase = "mounting" => filter = JSObject(filterOptions[1])
    /\ phase \in {"mounting", "mounted"} =>
         /\ filter.type = "object"
         /\ filter.value \in Range(filterOptions)
         /\ Recognized(filter)
    /\ phase = "mounted" =>
         /\ listBranch \in RecognizedFilters \cup {"none"}
         /\ listMessage # ""
    /\ renders = 1 =>
         /\ filter = JSObject(filterOptions[1])
         /\ Len(listRows) = Len(lessons)

\* mounted, the user has picked the third option, lessons were filtered
C9_Witness ==
  /\ OnList
  /\ phase = "mounted"
  /\ filter = JSObject(filterOptions[3])
  /\ listBranch = "inactiveLessons"
  /\ listMessage = "No inactive lessons"

\* the derived fields of a lesson-list row, computed from the store
ListDerived(l) ==
  [totalLearners |-> Len(getLearnersForLesson(l, learners)),
   tally |-> getLessonStatusTally(l["id"], getLearnersForLesson(l, learners), records),
   groupNames |-> getGroupNames(l["groups"]),
   hasAssignments |-> Len(getLearnersForLesson(l, learners)) > 0]

\* the derived fields of a resource-report row, computed from the store
ReportDerived(c) ==
  LET recips == getLearnersForLesson(lesson, learners)
      tally == getContentStatusTally(c["content_id"], recips, records)
  IN [avgTimeSpent |-> getContentAvgTimeSpent(c["content_id"], recips, records),
      tally |-> tally,
      hasAssignments |-> tally["notStarted"] + tally["inProgress"]
                           + tally["completed"] + tally["needsHelp"]]

\* a row is its item's attributes over the derived fields
RowOf(row, item, derived) ==
  /\ DOMAIN row = DOMAIN item \cup DOMAIN derived
  /\ \A a \in DOMAIN item : row[a] = item[a]
  /\ \A d \in DOMAIN derived \ DOMAIN item : row[d] = derived[d]

\* C10: every attribute of the item is in its row with the item's value; a
\* derived field holds the computed value only when the item has no
\* attribute of that name, else the item's value.
C10_ItemAttributesWin ==
  /\ OnList =>
       \A k \in 1..Len(listRows) :
         /\ "id" \in DOMAIN listRows[k]
         /\ RowOf(listRows[k], lessons[listRows[k]["id"]],
                  ListDerived(lessons[listRows[k]["id"]]))
  /\ OnReport =>
       \A k \in 1..Len(reportRows) :
         /\ "node_id" \in DOMAIN reportRows[k]
         /\ RowOf(reportRows[k], contentNodeMap[reportRows[k]["node_id"]],
                  ReportDerived(contentNodeMap[reportRows[k]["node_id"]]))

\* a lesson with recipients that carries hasAssignments = FALSE: so does its row
C10_Witness ==
  /\ OnList
  /\ \E k \in 1..Len(listRows) :
       LET l == lessons[listRows[k]["id"]]
       IN /\ "hasAssignments" \in DOMAIN l
          /\ getLearnersForLesson(l, learners) # <<>>
          /\ listRows[k]["hasAssignments"] = FALSE

====
